---- MODULE Spec2Model ----
(***************************************************************************)
(* The tariff game of kayweeee/game-theory-tariffs: six Streamlit scripts  *)
(* (app.py, main.py, pages/gametree.py, pages/namegametree.py,             *)
(* pages/bayesian.py, pages/simple.py).  Every widget change reruns the    *)
(* script of the open page from the top; one action of this module is one  *)
(* such rerun.                                                             *)
(*                                                                         *)
(* Numbers.  A Python float is modelled in one of two ways:                *)
(*  - a fixed-point integer: the value times SCALE (scores, tariffs,       *)
(*    payoffs), every product and quotient truncated to that grid;         *)
(*  - a record [k, m, e] (the result of np.exp and what is derived from    *)
(*    it): k = "fin" is the value (m / SCALE) * 10^e with m = 0 or         *)
(*    SCALE <= m < 10*SCALE, k = "inf" is +infinity, k = "nan" is NaN.     *)
(*    The overflow and underflow limits are those of IEEE double.          *)
(***************************************************************************)
EXTENDS Integers, Sequences, FiniteSets, TLC

VARIABLES page, selected_country, sliders, probs, payoffs, expected, best, call

vars == <<page, selected_country, sliders, probs, payoffs, expected, best, call>>

prog == <<page, selected_country, sliders, probs, payoffs, expected, best>>

(***************************************************************************)
(* Fixed-point arithmetic                                                  *)
(***************************************************************************)
SCALE == 100 * 100

Abs(x) == IF x < 0 THEN -x ELSE x

Sgn(x) == IF x < 0 THEN -1 ELSE 1

Max(a, b) == IF a >= b THEN a ELSE b

Pow10(n) == IF n <= 0 THEN 1
            ELSE IF n = 1 THEN 10
            ELSE IF n = 2 THEN 100
            ELSE IF n = 3 THEN 1000
            ELSE IF n = 4 THEN 10000
            ELSE 100000

\* a * b on the fixed-point grid, without an intermediate above 2^31
MulNat(a, b) ==
    LET ah == a \div SCALE
        al == a % SCALE
        bh == b \div SCALE
        bl == b % SCALE
    IN  ah * bh * SCALE + ah * bl + al * bh + (al * bl) \div SCALE

Mul(a, b) == Sgn(a) * Sgn(b) * MulNat(Abs(a), Abs(b))

\* a / b on the fixed-point grid by long division, b > 0
RECURSIVE DivDigits(_, _, _)
DivDigits(r, b, n) ==
    IF n = 0 THEN 0
    ELSE ((r * 10) \div b) * Pow10(n - 1) + DivDigits((r * 10) % b, b, n - 1)

DivNat(a, b) == (a \div b) * SCALE + DivDigits(a % b, b, 4)

Div(a, b) == Sgn(a) * Sgn(b) * DivNat(Abs(a), Abs(b))

\* w10/10 * x : a weight written with one decimal, times x
W(w10, x) == Sgn(x) * ((w10 * Abs(x)) \div 10)

\* Python's round(x, 2) on the fixed-point grid; a tie on the grid goes away from
\* zero here, where in Python the double nearest to the tie decides
Round2(x) == Sgn(x) * (((Abs(x) + 50) \div 100) * 100)

(***************************************************************************)
(* Floating-point values of np.exp and of the softmax                      *)
(***************************************************************************)
Fin(m, e) == [k |-> "fin", m |-> m, e |-> e]

FZero == Fin(0, 0)

FOne == Fin(SCALE, 0)

FInf == [k |-> "inf", m |-> 0, e |-> 0]

FNaN == [k |-> "nan", m |-> 0, e |-> 0]

\* the largest and smallest decimal exponents of a double
MaxExp10 == 308

MinExp10 == 324

\* np.exp(x) is inf above 709.7827 and 0.0 below -745.1332
ExpOverflow == 7097827

ExpUnderflow == 7451332

\* ln 10 on the grid
LN10 == 23026

\* e^(a/10), a = 0..23, on the grid
ExpTable == << 10000, 11052, 12214, 13499, 14918, 16487, 18221, 20138,
               22255, 24596, 27183, 30042, 33201, 36693, 40552, 44817,
               49530, 54739, 60496, 66859, 73891, 81662, 90250, 99742 >>

\* e^b for 0 <= b < 0.1 : 1 + b + b^2/2 + b^3/6
ExpSmall(b) == SCALE + b + (b * b) \div (2 * SCALE)
                     + (b * b * b) \div (6 * SCALE * SCALE)

Normal(m, e) ==
    IF m = 0 THEN FZero
    ELSE IF m >= 10 * SCALE THEN
             IF e + 1 > MaxExp10 THEN FInf ELSE Fin(m \div 10, e + 1)
    ELSE IF e > MaxExp10 THEN FInf
    ELSE IF e < -MinExp10 THEN FZero
    ELSE Fin(m, e)

\* np.exp of a fixed-point x
Exp(x) ==
    IF x > ExpOverflow THEN FInf
    ELSE IF x < -ExpUnderflow THEN FZero
    ELSE LET q == x \div LN10
             r == x % LN10
             a == r \div 1000
             b == r % 1000
         IN  Normal((ExpTable[a + 1] * ExpSmall(b)) \div SCALE, q)

\* x + y of two non-negative floats
FAdd(x, y) ==
    IF x.k = "nan" \/ y.k = "nan" THEN FNaN
    ELSE IF x.k = "inf" \/ y.k = "inf" THEN FInf
    ELSE IF x.m = 0 THEN y
    ELSE IF y.m = 0 THEN x
    ELSE LET hi == IF x.e >= y.e THEN x ELSE y
             lo == IF x.e >= y.e THEN y ELSE x
             sh == hi.e - lo.e
             lm == IF sh > 5 THEN 0 ELSE lo.m \div Pow10(sh)
         IN  Normal(hi.m + lm, hi.e)

\* x / y of two non-negative floats
FDiv(x, y) ==
    IF x.k = "nan" \/ y.k = "nan" THEN FNaN
    ELSE IF x.k = "inf" THEN (IF y.k = "inf" THEN FNaN ELSE FInf)
    ELSE IF y.k = "inf" THEN FZero
    ELSE IF y.m = 0 THEN (IF x.m = 0 THEN FNaN ELSE FInf)
    ELSE IF x.m = 0 THEN FZero
    ELSE IF x.m >= y.m
         THEN Normal((x.m * SCALE) \div y.m, x.e - y.e)
         ELSE Normal(((x.m * SCALE) \div y.m) * 10
                        + (((x.m * SCALE) % y.m) * 10) \div y.m,
                     x.e - y.e - 1)

\* x < y ; every comparison with NaN is false
FLess(x, y) ==
    IF x.k = "nan" \/ y.k = "nan" THEN FALSE
    ELSE IF x.k = "inf" THEN FALSE
    ELSE IF y.k = "inf" THEN TRUE
    ELSE IF y.m = 0 THEN FALSE
    ELSE IF x.m = 0 THEN TRUE
    ELSE x.e < y.e \/ (x.e = y.e /\ x.m < y.m)

\* a finite float in [0, 10) on the fixed-point grid
ToFixed(x) ==
    IF x.e >= 0 THEN x.m * Pow10(x.e)
    ELSE IF x.e < -5 THEN 0
    ELSE x.m \div Pow10(-x.e)

(***************************************************************************)
(* What the scripts share                                                  *)
(***************************************************************************)
Range(s) == {s[i] : i \in DOMAIN s}

IndexOf(s, x) == CHOOSE i \in DOMAIN s : s[i] = x

\* dict(zip(keys, values))
Zip(keys, values) == [l \in Range(keys) |-> values[IndexOf(keys, l)]]

\* def softmax(scores): e = np.exp(scores - np.max(scores)); return e / e.sum()
softmax(scores) ==
    LET mx == Max(Max(scores[1], scores[2]), scores[3])
        e  == [i \in 1..3 |-> Exp(scores[i] - mx)]
        s  == FAdd(FAdd(e[1], e[2]), e[3])
    IN  [i \in 1..3 |-> FDiv(e[i], s)]

\* max(d, key=d.get) over a dict of floats: the first key, in insertion
\* order, that no later key exceeds
RECURSIVE MaxKeyFrom(_, _, _, _)
MaxKeyFrom(keys, d, i, m) ==
    IF i > Len(keys) THEN m
    ELSE MaxKeyFrom(keys, d, i + 1, IF FLess(d[m], d[keys[i]]) THEN keys[i] ELSE m)

MaxKey(keys, d) == MaxKeyFrom(keys, d, 2, keys[1])

\* max(d, key=d.get) over a dict of fixed-point payoffs
RECURSIVE MaxOptionFrom(_, _, _, _)
MaxOptionFrom(keys, d, i, m) ==
    IF i > Len(keys) THEN m
    ELSE MaxOptionFrom(keys, d, i + 1, IF d[keys[i]] > d[m] THEN keys[i] ELSE m)

\* mutant: among equal maxima the last key wins
MaxOption_last(keys, d) ==
    keys[CHOOSE i \in DOMAIN keys :
            /\ \A j \in DOMAIN keys : d[keys[j]] <= d[keys[i]]
            /\ \A j \in DOMAIN keys : j > i => d[keys[j]] < d[keys[i]]]

MaxOption(keys, d) == MaxOptionFrom(keys, d, 2, keys[1])

\* p * x, p a probability of the softmax and x a payoff
Weighted(p, x) == Mul(ToFixed(p), x)

\* the normalisation bounds, the same in every script that normalises
GDP_MIN == 3000

GDP_MAX == 250000

TRADE_MAX == 7500

NATIONALISM_MAX == 100000

\* the values a widget takes here: its minimum, Ticks steps up from it, its
\* default, and what is typed into it
Ticks == 0

WidgetValues(w) == {w.min + i * w.step : i \in 0..Ticks} \cup {w.default} \cup w.typed

\* st.slider(min, ..., default, step); min is where the values enumerated start
Widget(min, step, default) ==
    [min |-> min, step |-> step, default |-> default, typed |-> {}]

\* st.number_input: as a slider, and the user may type any value
NumberInput(min, step, default, typed) ==
    [min |-> min, step |-> step, default |-> default, typed |-> typed]

x_options == <<"x1", "x2", "x3">>

(***************************************************************************)
(* app.py                                                                  *)
(***************************************************************************)
app_countries ==
    [ China  |-> [GDP |-> 177900, Trade |-> 1800, Nationalism |-> 80000,
                  Friendliness |-> 2000, GDP_us |-> 277200,
                  TD_us |-> Div(1435, 21000), ID_us |-> 1140, ID |-> 950],
      Mexico |-> [GDP |-> 17900, Trade |-> 4460, Nationalism |-> 40000,
                  Friendliness |-> 5000, GDP_us |-> 277200,
                  TD_us |-> Div(3340, 21000), ID_us |-> 1560, ID |-> 6650],
      EU     |-> [GDP |-> 184000, Trade |-> 1500, Nationalism |-> 20000,
                  Friendliness |-> 7000, GDP_us |-> 277200,
                  TD_us |-> Div(3702, 21000), ID_us |-> 1910, ID |-> 1680] ]

app_TARIFF_MAX == 100

app_mu == 8000

app_nu == 5000

app_labels == <<"high_retaliate", "low_retaliate", "no_response">>

app_widgets ==
    [ t2        |-> Widget(1000, 500, 3000),
      t3        |-> Widget(3000, 500, 6000),
      z1_tariff |-> Widget(3000, 500, 6000),
      z2_tariff |-> Widget(6000, 500, 9000),
      t_ch_low  |-> Widget(0, 500, 1500),
      t_ch_high |-> Widget(0, 500, 3000) ]

\* mutant: the nationalism index enters S_ret unnormalised (0..10, not 0..1)
app_scores_raw_nationalism(G, N, D, F, T) ==
    << G + W(12, 10 * N) + W(15, T) - D - W(13, F),
       W(13, F) + D + W(12, SCALE - N) + W(8, G),
       W(12, SCALE - G) + D + W(15, SCALE - T) + F >>

app_scores(G, N, D, F, T) ==
    << G + W(12, N) + W(15, T) - D - W(13, F),
       W(13, F) + D + W(12, SCALE - N) + W(8, G),
       W(12, SCALE - G) + D + W(15, SCALE - T) + F >>

app_updated_response_probs(G, N, D, F, T) == softmax(app_scores(G, N, D, F, T))

\* mutant: the damage term is applied whatever the flag
app_us_payoff_unflagged(t_us, t_ch, retaliated, GDP_us, TD_us, mu, ID_us) ==
    LET damage == Mul(GDP_us, Mul(t_ch, TD_us))
        gain   == Mul(Mul(mu, t_us), ID_us)
    IN  -damage + gain

app_us_payoff(t_us, t_ch, retaliated, GDP_us, TD_us, mu, ID_us) ==
    LET damage == IF retaliated # 0 THEN Mul(GDP_us, Mul(t_ch, TD_us)) ELSE 0
        gain   == Mul(Mul(mu, t_us), ID_us)
    IN  -damage + gain

app_foreign_payoff(t_us, t_ch, GDP, TD, nu, ID) ==
    LET damage == Mul(GDP, Mul(t_us, TD))
        gain   == IF t_ch > 0 THEN Mul(Mul(nu, t_ch), ID) ELSE 0
    IN  -damage + gain

\* the normalised factors G, D, N, F of a profile
Normalize(profile) ==
    [ G |-> Div(profile.GDP - GDP_MIN, GDP_MAX - GDP_MIN),
      D |-> Div(profile.Trade, TRADE_MAX),
      N |-> Div(profile.Nationalism, NATIONALISM_MAX),
      F |-> profile.Friendliness ]

app_U_x2(p2, T) ==
    Weighted(p2["no_response"], T.T5)
      + Weighted(p2["low_retaliate"], Max(T.T6a, T.T6b))
      + Weighted(p2["high_retaliate"], Max(T.T7a, T.T7b))

app_U_x3(p3, T) ==
    Weighted(p3["no_response"], T.T2)
      + Weighted(p3["low_retaliate"], T.T3)
      + Weighted(p3["high_retaliate"], T.T4)

\* one run of app.py from the top
app_run(country, s) ==
    LET profile == app_countries[country]
        f  == Normalize(profile)
        T_norm_2 == (s.t2 * 100) \div app_TARIFF_MAX
        T_norm_3 == (s.t3 * 100) \div app_TARIFF_MAX
        p2 == Zip(app_labels, app_updated_response_probs(f.G, f.N, f.D, f.F, T_norm_2))
        p3 == Zip(app_labels, app_updated_response_probs(f.G, f.N, f.D, f.F, T_norm_3))
        US(t_us, t_ch, r) ==
            app_us_payoff(t_us, t_ch, r, profile.GDP_us, profile.TD_us, app_mu, profile.ID_us)
        CH(t_us, t_ch) ==
            app_foreign_payoff(t_us, t_ch, profile.GDP, profile.Trade, app_nu, profile.ID)
        T == [ T1  |-> US(0, 0, 0),
               T2  |-> US(s.t3, 0, 0),
               T3  |-> US(s.t3, 0, 0),
               T4  |-> US(s.t3, s.t_ch_high, 1),
               T5  |-> US(s.t2, 0, 0),
               T6a |-> US(s.z1_tariff, 0, 0),
               T6b |-> US(s.z2_tariff, 0, 0),
               T7a |-> US(s.z1_tariff, s.t_ch_low, 1),
               T7b |-> US(s.z2_tariff, s.t_ch_high, 1),
               C1  |-> CH(0, 0),
               C2  |-> CH(s.t3, 0),
               C3  |-> CH(s.t3, 0),
               C4  |-> CH(s.t3, s.t_ch_high),
               C5  |-> CH(s.t2, 0),
               C6a |-> CH(s.z1_tariff, 0),
               C6b |-> CH(s.z2_tariff, 0),
               C7a |-> CH(s.z1_tariff, s.t_ch_low),
               C7b |-> CH(s.z2_tariff, s.t_ch_high) ]
        U == [ x1 |-> T.T1, x2 |-> app_U_x2(p2, T), x3 |-> app_U_x3(p3, T) ]
    IN  [ probs    |-> [p2 |-> p2, p3 |-> p3],
          payoffs  |-> T,
          expected |-> U,
          best     |-> [ us_best       |-> MaxOption(x_options, U),
                         china_x2_best |-> MaxKey(app_labels, p2),
                         china_x3_best |-> MaxKey(app_labels, p3) ] ]

(***************************************************************************)
(* pages/gametree.py                                                       *)
(***************************************************************************)
gametree_countries ==
    [ China  |-> [G |-> 5000, N |-> 7000, D |-> 4000, F |-> 2000,
                  GDP |-> 180000, TD |-> 1120,
                  GDP_us |-> 250000, TD_us |-> Div(1435, 21000)],
      Mexico |-> [G |-> 6000, N |-> 4000, D |-> 6000, F |-> 9000,
                  GDP |-> 17900, TD |-> 4460,
                  GDP_us |-> 250000, TD_us |-> Div(3340, 21000)],
      EU     |-> [G |-> 7000, N |-> 3000, D |-> 9000, F |-> 7000,
                  GDP |-> 185900, TD |-> 2060,
                  GDP_us |-> 250000, TD_us |-> Div(3702, 21000)] ]

tree_labels == <<"retaliate", "negotiate", "no_response">>

\* alpha, beta, gamma: st.number_input(value=...), no minimum, step 0.01
tree_widgets ==
    [ alpha |-> NumberInput(0, 100, 10000, {}),
      beta  |-> NumberInput(-100, 100, 8000, {}),
      gamma |-> NumberInput(-100, 100, 2000, {}) ]

\* t1, t2, t3, z1_tariff, z2_tariff, t_ch_low, t_ch_high
tree_levels ==
    [ t1 |-> 0, t2 |-> 3000, t3 |-> 6000, z1_tariff |-> 6000,
      z2_tariff |-> 9000, t_ch_low |-> 1500, t_ch_high |-> 3000 ]

gametree_scores(G, N, D, F, T) ==
    << G + W(12, N) + W(15, T) - D - W(13, F),
       W(13, F) + D + W(12, SCALE - N) + W(8, G),
       W(12, SCALE - G) + D + W(15, SCALE - T) + F >>

gametree_response_probs(G, N, D, F, T) == softmax(gametree_scores(G, N, D, F, T))

\* 1 - e_us with e_us = -0.31
gametree_elasticity == 13100

\* mutant: the political penalty beta is charged whether or not retaliated is set
gametree_us_payoff_penalised(t_us, t_ch, retaliated, alpha, beta, gamma, GDP_us, TD_us) ==
    LET damage == IF retaliated # 0
                  THEN Mul(GDP_us, Mul(Mul(t_ch, TD_us), gametree_elasticity))
                  ELSE 0
        political == Mul(alpha, t_us) - beta + gamma
    IN  -damage + political

gametree_us_payoff(t_us, t_ch, retaliated, alpha, beta, gamma, GDP_us, TD_us) ==
    LET damage == IF retaliated # 0
                  THEN Mul(GDP_us, Mul(Mul(t_ch, TD_us), gametree_elasticity))
                  ELSE 0
        political == Mul(alpha, t_us) - beta * retaliated + gamma
    IN  -damage + political

gametree_foreign_payoff(t_us, t_ch, GDP, TD) ==
    LET damage == Mul(GDP, Mul(Mul(t_us, TD), gametree_elasticity))
        retaliation_cost == IF t_ch > 0 THEN W(1, damage) ELSE 0
    IN  -damage - retaliation_cost

\* mutant: the second-stage payoffs are averaged, not maximised
tree_U_x2_mean(p2, T) ==
    Weighted(p2["no_response"], T.T5)
      + Weighted(p2["negotiate"], (T.T6a + T.T6b) \div 2)
      + Weighted(p2["retaliate"], (T.T7a + T.T7b) \div 2)

tree_U_x2(p2, T) ==
    Weighted(p2["no_response"], T.T5)
      + Weighted(p2["negotiate"], Max(T.T6a, T.T6b))
      + Weighted(p2["retaliate"], Max(T.T7a, T.T7b))

tree_U_x3(p3, T) ==
    Weighted(p3["no_response"], T.T2)
      + Weighted(p3["negotiate"], T.T3)
      + Weighted(p3["retaliate"], T.T4)

tree_C_x2(p2, T) ==
    Weighted(p2["no_response"], T.C5)
      + Weighted(p2["negotiate"], Max(T.C6a, T.C6b))
      + Weighted(p2["retaliate"], Max(T.C7a, T.C7b))

tree_C_x3(p3, T) ==
    Weighted(p3["no_response"], T.C2)
      + Weighted(p3["negotiate"], T.C3)
      + Weighted(p3["retaliate"], T.C4)

\* the terminal payoffs T1..T7b, C1..C7b of the two pages with a game tree
tree_terminal(US(_, _, _), CH(_, _)) ==
    LET l == tree_levels
    IN  [ T1  |-> US(l.t1, 0, 0),
          T2  |-> US(l.t3, 0, 0),
          T3  |-> US(l.t3, 0, 0),
          T4  |-> US(l.t3, l.t_ch_high, 1),
          T5  |-> US(l.t2, 0, 0),
          T6a |-> US(l.z1_tariff, 0, 0),
          T6b |-> US(l.z2_tariff, 0, 0),
          T7a |-> US(l.z1_tariff, l.t_ch_low, 1),
          T7b |-> US(l.z2_tariff, l.t_ch_high, 1),
          C1  |-> CH(l.t1, 0),
          C2  |-> CH(l.t3, 0),
          C3  |-> CH(l.t3, 0),
          C4  |-> CH(l.t3, l.t_ch_high),
          C5  |-> CH(l.t2, 0),
          C6a |-> CH(l.z1_tariff, 0),
          C6b |-> CH(l.z2_tariff, 0),
          C7a |-> CH(l.z1_tariff, l.t_ch_low),
          C7b |-> CH(l.z2_tariff, l.t_ch_high) ]

\* expected payoffs and best responses of the two pages with a game tree
tree_result(p2, p3, T) ==
    LET U == [ x1 |-> T.T1, x2 |-> tree_U_x2(p2, T), x3 |-> tree_U_x3(p3, T),
               C_x1 |-> T.C1, C_x2 |-> tree_C_x2(p2, T), C_x3 |-> tree_C_x3(p3, T) ]
    IN  [ probs    |-> [p2 |-> p2, p3 |-> p3],
          payoffs  |-> T,
          expected |-> U,
          best     |-> [ us_best       |-> MaxOption(x_options, U),
                         china_x2_best |-> MaxKey(tree_labels, p2),
                         china_x3_best |-> MaxKey(tree_labels, p3) ] ]

\* one run of pages/gametree.py from the top
gametree_run(country, s) ==
    LET profile == gametree_countries[country]
        US(t_us, t_ch, r) ==
            gametree_us_payoff(t_us, t_ch, r, s.alpha, s.beta, s.gamma,
                               profile.GDP_us, profile.TD_us)
        CH(t_us, t_ch) == gametree_foreign_payoff(t_us, t_ch, profile.GDP, profile.TD)
        P(T) == Zip(tree_labels,
                    gametree_response_probs(profile.G, profile.N, profile.D, profile.F, T))
    IN  tree_result(P(tree_levels.t2), P(tree_levels.t3), tree_terminal(US, CH))

(***************************************************************************)
(* pages/namegametree.py                                                   *)
(***************************************************************************)
namegametree_countries ==
    [ China  |-> [GDP |-> 177900, Trade |-> 1800, Nationalism |-> 80000,
                  Friendliness |-> 2000, GDP_us |-> 277200,
                  TD_us |-> Div(1435, 21000)],
      Mexico |-> [GDP |-> 17900, Trade |-> 4460, Nationalism |-> 40000,
                  Friendliness |-> 5000, GDP_us |-> 277200,
                  TD_us |-> Div(3340, 21000)],
      EU     |-> [GDP |-> 184000, Trade |-> 1500, Nationalism |-> 20000,
                  Friendliness |-> 7000, GDP_us |-> 277200,
                  TD_us |-> Div(3702, 21000)] ]

namegametree_TARIFF_MAX == 100

namegametree_scores(G, N, D, F, T) ==
    << G + W(12, N) + W(15, T) - D - W(13, F),
       W(13, F) + D + W(12, SCALE - N) + W(8, G),
       W(12, SCALE - G) + D + W(15, SCALE - T) + F >>

namegametree_updated_response_probs(G, N, D, F, T) ==
    softmax(namegametree_scores(G, N, D, F, T))

namegametree_us_payoff(t_us, t_ch, retaliated, alpha, beta, gamma, GDP_us, TD_us) ==
    LET damage == IF retaliated # 0 THEN Mul(GDP_us, Mul(t_ch, TD_us)) ELSE 0
        political == Mul(alpha, t_us) - beta * retaliated + gamma
    IN  -damage + political

\* mutant: the retaliation cost is charged at a retaliation tariff of 0 too
namegametree_foreign_payoff_ungated(t_us, t_ch, GDP, TD) ==
    LET damage == Mul(GDP, Mul(t_us, TD))
        retaliation_cost == IF t_ch >= 0 THEN W(1, damage) ELSE 0
    IN  -damage - retaliation_cost

namegametree_foreign_payoff(t_us, t_ch, GDP, TD) ==
    LET damage == Mul(GDP, Mul(t_us, TD))
        retaliation_cost == IF t_ch > 0 THEN W(1, damage) ELSE 0
    IN  -damage - retaliation_cost

\* one run of pages/namegametree.py from the top
namegametree_run(country, s) ==
    LET profile == namegametree_countries[country]
        f == Normalize(profile)
        T_norm_2 == (tree_levels.t2 * 100) \div namegametree_TARIFF_MAX
        T_norm_3 == (tree_levels.t3 * 100) \div namegametree_TARIFF_MAX
        US(t_us, t_ch, r) ==
            namegametree_us_payoff(t_us, t_ch, r, s.alpha, s.beta, s.gamma,
                                   profile.GDP_us, profile.TD_us)
        CH(t_us, t_ch) ==
            namegametree_foreign_payoff(t_us, t_ch, profile.GDP, profile.Trade)
        P(T) == Zip(tree_labels,
                    namegametree_updated_response_probs(f.G, f.N, f.D, f.F, T))
    IN  tree_result(P(T_norm_2), P(T_norm_3), tree_terminal(US, CH))

(***************************************************************************)
(* pages/bayesian.py                                                       *)
(***************************************************************************)
bayesian_countries == app_countries

types == <<"high", "low", "none">>

fr_actions == {"retaliate", "no_retaliate"}

bayesian_mu == 20000

bayesian_nu == 15000

bayesian_t2 == 1000

bayesian_t3 == 4000

bayesian_t_ch == 2000

penalty_scale == 20000

\* the tariff above which the friendliness penalty applies
penalty_threshold == 2000

type_scores(G, N, D, F) ==
    << W(14, G) + W(15, N) - D - W(12, F),
       W(12, F) + W(8, D) + W(9, SCALE - N) + W(6, G),
       W(11, SCALE - G) + D + F >>

response_type_probs(G, N, D, F) == softmax(type_scores(G, N, D, F))

\* mutant: the penalty applies from the threshold on
bayesian_us_payoff_from_threshold(t_us, t_ch, GDP_us, TD_us, mu, ID_us, friendliness) ==
    LET gain == Mul(Mul(mu, t_us), ID_us)
        retaliation_damage == Mul(Mul(W(15, GDP_us), t_ch), TD_us)
        friendly_penalty == IF t_us >= penalty_threshold
                            THEN -Mul(friendliness, penalty_scale) ELSE 0
    IN  Round2(gain - retaliation_damage + friendly_penalty)

bayesian_us_payoff(t_us, t_ch, GDP_us, TD_us, mu, ID_us, friendliness) ==
    LET gain == Mul(Mul(mu, t_us), ID_us)
        retaliation_damage == Mul(Mul(W(15, GDP_us), t_ch), TD_us)
        friendly_penalty == IF t_us > penalty_threshold
                            THEN -Mul(friendliness, penalty_scale) ELSE 0
    IN  Round2(gain - retaliation_damage + friendly_penalty)

bayesian_foreign_payoff(t_us, t_ch, GDP, TD, nu, ID, type_factor) ==
    LET gain == Mul(Mul(nu, t_ch), ID)
        damage == Mul(Mul(GDP, t_us), TD)
        alignment == type_factor
    IN  Round2(Mul(gain, alignment) - damage)

type_alignment_bonus ==
    [ high |-> [retaliate |-> 12000, no_retaliate |-> 8000],
      low  |-> [retaliate |-> 10000, no_retaliate |-> 10000],
      none |-> [retaliate |-> 8000,  no_retaliate |-> 12000] ]

\* mutant: each type counts the better of the partner's two responses
RECURSIVE bayesian_U_max(_, _, _, _)
bayesian_U_max(p, pay, x, i) ==
    IF i > Len(types) THEN 0
    ELSE Weighted(p[types[i]], Max(pay[<<types[i], x, "retaliate">>][1],
                                   pay[<<types[i], x, "no_retaliate">>][1]))
           + bayesian_U_max(p, pay, x, i + 1)

\* sum([p[typ] * payoffs[typ_x_retaliate][0] * 0.5
\*      + p[typ] * payoffs[typ_x_no_retaliate][0] * 0.5 for typ in types])
RECURSIVE bayesian_U(_, _, _, _)
bayesian_U(p, pay, x, i) ==
    IF i > Len(types) THEN 0
    ELSE W(5, Weighted(p[types[i]], pay[<<types[i], x, "retaliate">>][1]))
           + W(5, Weighted(p[types[i]], pay[<<types[i], x, "no_retaliate">>][1]))
           + bayesian_U(p, pay, x, i + 1)

bayesian_options == <<"High Tariff", "Low Tariff">>

\* mutant: the retaliation the policy-maker suffers is scaled by the type's alignment
bayesian_payoffs_typed(profile, F) ==
    LET t_us(x) == IF x = "high" THEN bayesian_t3 ELSE bayesian_t2
        t_chosen(y) == IF y = "retaliate" THEN bayesian_t_ch ELSE 0
    IN  [ n \in Range(types) \X {"high", "low"} \X fr_actions |->
            << bayesian_us_payoff(t_us(n[2]),
                                  Mul(t_chosen(n[3]), type_alignment_bonus[n[1]][n[3]]),
                                  profile.GDP_us, profile.TD_us, bayesian_mu,
                                  profile.ID_us, F),
               bayesian_foreign_payoff(t_us(n[2]), t_chosen(n[3]), profile.GDP,
                                       profile.Trade, bayesian_nu, profile.ID,
                                       type_alignment_bonus[n[1]][n[3]]) >> ]

\* the payoffs table: (us, ch) at every node typ_x_y
bayesian_payoffs(profile, F) ==
    LET t_us(x) == IF x = "high" THEN bayesian_t3 ELSE bayesian_t2
        t_chosen(y) == IF y = "retaliate" THEN bayesian_t_ch ELSE 0
    IN  [ n \in Range(types) \X {"high", "low"} \X fr_actions |->
            << bayesian_us_payoff(t_us(n[2]), t_chosen(n[3]), profile.GDP_us,
                                  profile.TD_us, bayesian_mu, profile.ID_us, F),
               bayesian_foreign_payoff(t_us(n[2]), t_chosen(n[3]), profile.GDP,
                                       profile.Trade, bayesian_nu, profile.ID,
                                       type_alignment_bonus[n[1]][n[3]]) >> ]

\* U_high, U_low and us_best for a type distribution p and a payoffs table
bayesian_choice(p, pay) ==
    LET U == [ n \in Range(bayesian_options) |->
                 bayesian_U(p, pay, IF n = "High Tariff" THEN "high" ELSE "low", 1) ]
    IN  [ expected |-> U, best |-> [us_best |-> MaxOption(bayesian_options, U)] ]

\* one run of pages/bayesian.py from the top
bayesian_run(country, s) ==
    LET profile == bayesian_countries[country]
        f == Normalize(profile)
        p == Zip(types, response_type_probs(f.G, f.N, f.D, f.F))
        pay == bayesian_payoffs(profile, f.F)
        c == bayesian_choice(p, pay)
    IN  [ probs    |-> [p |-> p],
          payoffs  |-> pay,
          expected |-> c.expected,
          best     |-> c.best ]

(***************************************************************************)
(* pages/simple.py                                                         *)
(***************************************************************************)
simple_countries ==
    [ China  |-> [GDP |-> 177900, Trade |-> 1800, Nationalism |-> 80000,
                  Friendliness |-> 2000],
      Mexico |-> [GDP |-> 17900, Trade |-> 4460, Nationalism |-> 40000,
                  Friendliness |-> 9000],
      EU     |-> [GDP |-> 184000, Trade |-> 1500, Nationalism |-> 20000,
                  Friendliness |-> 5000] ]

simple_widgets ==
    [ t_low  |-> Widget(0, 100, 1000),
      t_high |-> Widget(0, 100, 4000),
      t_ret  |-> Widget(0, 100, 2000),
      gamma  |-> Widget(0, 1000, 25000) ]

simple_response_type_probs(G, N, D, F) == softmax(type_scores(G, N, D, F))

us_payoff_simple(t_us, retaliation, GDP_partner, friendliness, partner_type, gamma) ==
    LET penalty == [high |-> 5000, low |-> 2000, none |-> 1000][partner_type]
        tariff_gain == Mul(t_us, SCALE - friendliness)
        retaliation_cost == Mul(Mul(retaliation, GDP_partner), penalty)
        friendliness_penalty == Mul(Mul(t_us, friendliness), gamma)
    IN  Round2(tariff_gain - retaliation_cost - friendliness_penalty)

foreign_payoff_simple(t_us, retaliation, GDP, friendliness, partner_type) ==
    LET type_sensitivity == [high |-> 10000, low |-> 6000, none |-> 3000]
        sens == type_sensitivity[partner_type]
        tariff_damage == Mul(Mul(t_us, GDP), sens)
        retaliation_gain == Mul(Mul(retaliation, SCALE - friendliness), sens)
        gdp_factor == Div(SCALE, GDP + 1000)
        base_cost == Mul(Mul(retaliation, friendliness), gdp_factor) * 5
        tariff_discount == t_us * 3
        retaliation_cost == Max(base_cost - tariff_discount, 0)
    IN  Round2(-tariff_damage + retaliation_gain - retaliation_cost)

\* mutant: the partner retaliates unless not retaliating is strictly better
foreign_best_action_eager(pay, typ, us_act) ==
    LET r_payoff  == pay[<<typ, us_act, "retaliate">>][2]
        nr_payoff == pay[<<typ, us_act, "no_retaliate">>][2]
    IN  IF nr_payoff > r_payoff THEN "no_retaliate" ELSE "retaliate"

foreign_best_action(pay, typ, us_act) ==
    LET r_payoff  == pay[<<typ, us_act, "retaliate">>][2]
        nr_payoff == pay[<<typ, us_act, "no_retaliate">>][2]
    IN  IF r_payoff > nr_payoff THEN "retaliate" ELSE "no_retaliate"

\* sum(p[t] * payoffs[t_act_best(t, act)][0] for t in types)
RECURSIVE exp_us(_, _, _, _)
exp_us(p, pay, us_act, i) ==
    IF i > Len(types) THEN 0
    ELSE Weighted(p[types[i]],
                  pay[<<types[i], us_act, foreign_best_action(pay, types[i], us_act)>>][1])
           + exp_us(p, pay, us_act, i + 1)

\* best_action = "high" if exp_us_high > exp_us_low else "low"
simple_best_action(exp_us_high, exp_us_low) ==
    IF exp_us_high > exp_us_low THEN "high" ELSE "low"

\* one run of pages/simple.py from the top
simple_run(country, s) ==
    LET prof == simple_countries[country]
        f == Normalize(prof)
        p == Zip(types, simple_response_type_probs(f.G, f.N, f.D, f.F))
        tau_us(a) == IF a = "low" THEN s.t_low ELSE s.t_high
        tau_fr(a) == IF a = "retaliate" THEN s.t_ret ELSE 0
        pay == [ n \in Range(types) \X {"low", "high"} \X fr_actions |->
                   << us_payoff_simple(tau_us(n[2]), tau_fr(n[3]), prof.GDP, f.F, n[1], s.gamma),
                      foreign_payoff_simple(tau_us(n[2]), tau_fr(n[3]), prof.GDP, f.F, n[1]) >> ]
        U == [ low |-> exp_us(p, pay, "low", 1), high |-> exp_us(p, pay, "high", 1) ]
    IN  [ probs    |-> [p |-> p],
          payoffs  |-> pay,
          expected |-> U,
          best     |-> [best_action |-> simple_best_action(U.high, U.low)] ]

(***************************************************************************)
(* main.py                                                                 *)
(***************************************************************************)
main_TARIFF_MAX == 500000

presets ==
    ("China" :> [GDP |-> 177900, Trade |-> 1800, Nationalism |-> 80000,
                 Friendliness |-> 2000, Tariff |-> 250000])
    @@ ("EU" :> [GDP |-> 184000, Trade |-> 1500, Nationalism |-> 20000,
                 Friendliness |-> 7000, Tariff |-> 250000])
    @@ ("Canada" :> [GDP |-> 22000, Trade |-> 7500, Nationalism |-> 30000,
                     Friendliness |-> 9000, Tariff |-> 250000])
    @@ ("ASEAN (average)" :> [GDP |-> 36000, Trade |-> 2500, Nationalism |-> 40000,
                              Friendliness |-> 6000, Tariff |-> 250000])
    @@ ("Custom" :> [GDP |-> 50000, Trade |-> 3000, Nationalism |-> 50000,
                     Friendliness |-> 5000, Tariff |-> 200000])

\* a GDP typed into the number input, which has no maximum: 20000 (trillion USD)
TypedGDP == 20000 * SCALE

\* the largest export share the input takes (max_value=100.0), in percent
FullShare == 100 * SCALE

\* the five inputs of main.py, their defaults those of the selected preset
main_widgets(country) ==
    LET default == presets[country]
    IN  [ gdp              |-> NumberInput(1000, 1000, default.GDP, {TypedGDP}),
          trade_dependence |-> NumberInput(0, 5000, default.Trade * 100, {FullShare}),
          nationalism      |-> Widget(0, 1000, default.Nationalism),
          friendliness     |-> Widget(0, 100, default.Friendliness),
          tariff           |-> Widget(0, 10000, default.Tariff) ]

main_alpha == <<10, 12, 15, 10, 13>>

main_beta == <<13, 10, 12, 8>>

main_gamma == <<12, 10, 15, 10>>

\* mutant: friendliness raises the retaliation score
main_scores_friendly_retaliation(G, N, D, F, T) ==
    << W(main_alpha[1], G) + W(main_alpha[2], N) + W(main_alpha[3], T)
         - W(main_alpha[4], D) + W(main_alpha[5], F),
       W(main_beta[1], F) + W(main_beta[2], D) + W(main_beta[3], SCALE - N)
         + W(main_beta[4], G),
       W(main_gamma[1], SCALE - G) + W(main_gamma[2], D)
         + W(main_gamma[3], SCALE - T) + W(main_gamma[4], F) >>

main_scores(G, N, D, F, T) ==
    << W(main_alpha[1], G) + W(main_alpha[2], N) + W(main_alpha[3], T)
         - W(main_alpha[4], D) - W(main_alpha[5], F),
       W(main_beta[1], F) + W(main_beta[2], D) + W(main_beta[3], SCALE - N)
         + W(main_beta[4], G),
       W(main_gamma[1], SCALE - G) + W(main_gamma[2], D)
         + W(main_gamma[3], SCALE - T) + W(main_gamma[4], F) >>

\* exps = np.exp([S_ret, S_neg, S_none]); probs = exps / np.sum(exps)
main_probs(scores) ==
    LET exps == [i \in 1..3 |-> Exp(scores[i])]
        sum  == FAdd(FAdd(exps[1], exps[2]), exps[3])
    IN  [i \in 1..3 |-> FDiv(exps[i], sum)]

main_labels == <<"Retaliate", "Negotiate", "No Response">>

\* probs.argmax(): numpy returns the first NaN if there is one, else the first maximum
argmax(p) ==
    IF \E i \in 1..3 : p[i].k = "nan"
    THEN CHOOSE i \in 1..3 : p[i].k = "nan" /\ \A j \in 1..(i - 1) : p[j].k # "nan"
    ELSE CHOOSE i \in 1..3 : /\ \A j \in 1..3 : ~FLess(p[i], p[j])
                             /\ \A j \in 1..(i - 1) : FLess(p[j], p[i])

\* mutant: the GDP and trade factors are clamped to [0, 1]
main_normalize_clamped(s) ==
    [ G |-> Max(0, -Max(-SCALE, -Div(s.gdp - GDP_MIN, GDP_MAX - GDP_MIN))),
      D |-> -Max(-SCALE, -Div(s.trade_dependence \div 100, TRADE_MAX)),
      N |-> Div(s.nationalism, NATIONALISM_MAX),
      F |-> s.friendliness,
      T |-> Div(s.tariff, main_TARIFF_MAX) ]

\* the normalised factors G, D, N, F, T of main.py's inputs
main_normalize(s) ==
    [ G |-> Div(s.gdp - GDP_MIN, GDP_MAX - GDP_MIN),
      D |-> Div(s.trade_dependence \div 100, TRADE_MAX),
      N |-> Div(s.nationalism, NATIONALISM_MAX),
      F |-> s.friendliness,
      T |-> Div(s.tariff, main_TARIFF_MAX) ]

\* one run of main.py from the top
main_run(country, s) ==
    LET f == main_normalize(s)
        p == main_probs(main_scores(f.G, f.N, f.D, f.F, f.T))
    IN  [ probs    |-> [p |-> Zip(main_labels, p)],
          payoffs  |-> <<>>,
          expected |-> <<>>,
          best     |-> [best_action |-> main_labels[argmax(p)]] ]

(***************************************************************************)
(* The program: the open page, its widgets, and what its last run showed   *)
(***************************************************************************)
Pages == {"app", "main", "gametree", "namegametree", "bayesian", "simple"}

\* the options of the country selectbox of a page
Countries(pg) ==
    CASE pg = "app"          -> DOMAIN app_countries
      [] pg = "main"         -> DOMAIN presets
      [] pg = "gametree"     -> DOMAIN gametree_countries
      [] pg = "namegametree" -> DOMAIN namegametree_countries
      [] pg = "bayesian"     -> DOMAIN bayesian_countries
      [] pg = "simple"       -> DOMAIN simple_countries

\* the numeric widgets of a page
Widgets(pg, country) ==
    CASE pg = "app"          -> app_widgets
      [] pg = "main"         -> main_widgets(country)
      [] pg = "gametree"     -> tree_widgets
      [] pg = "namegametree" -> tree_widgets
      [] pg = "bayesian"     -> [n \in {} |-> Widget(0, 0, 0)]
      [] pg = "simple"       -> simple_widgets

Defaults(pg, country) ==
    LET w == Widgets(pg, country) IN [n \in DOMAIN w |-> w[n].default]

\* the script of a page, run from the top
Run(pg, country, s) ==
    CASE pg = "app"          -> app_run(country, s)
      [] pg = "main"         -> main_run(country, s)
      [] pg = "gametree"     -> gametree_run(country, s)
      [] pg = "namegametree" -> namegametree_run(country, s)
      [] pg = "bayesian"     -> bayesian_run(country, s)
      [] pg = "simple"       -> simple_run(country, s)

NoCall ==
    [fn |-> "none", variant |-> "none", args |-> <<>>, done |-> FALSE, ret |-> 0,
     raised |-> "none"]

Shows(pg, country, s) ==
    \E r \in {Run(pg, country, s)} :
        /\ page = pg
        /\ selected_country = country
        /\ sliders = s
        /\ probs = r.probs
        /\ payoffs = r.payoffs
        /\ expected = r.expected
        /\ best = r.best

\* mutant: the expected payoffs of the previous run of the same page are kept
Rerun_stale_expected(pg, country, s) ==
    \E r \in {Run(pg, country, s)} :
        /\ page' = pg
        /\ selected_country' = country
        /\ sliders' = s
        /\ probs' = r.probs
        /\ payoffs' = r.payoffs
        /\ expected' = IF page = pg THEN expected ELSE r.expected
        /\ best' = r.best
        /\ UNCHANGED call

\* the script runs from the top and replaces everything the page showed
Rerun(pg, country, s) ==
    \E r \in {Run(pg, country, s)} :
        /\ page' = pg
        /\ selected_country' = country
        /\ sliders' = s
        /\ probs' = r.probs
        /\ payoffs' = r.payoffs
        /\ expected' = r.expected
        /\ best' = r.best
        /\ UNCHANGED call

\* the first option of every selectbox
FirstCountry == "China"

\* the application opened: app.py has run once with every widget at its default
Init ==
    /\ Shows("app", FirstCountry, Defaults("app", FirstCountry))
    /\ call = NoCall

\* a page is opened: its widgets are at their defaults
OpenPage ==
    \E pg \in Pages : Rerun(pg, FirstCountry, Defaults(pg, FirstCountry))

\* st.selectbox: another country; in main.py the inputs take the preset's values
SelectCountry ==
    \E c \in Countries(page) :
        Rerun(page, c, IF page = "main" THEN Defaults("main", c) ELSE sliders)

\* st.slider / st.number_input: one widget takes another value
MoveSlider ==
    \E n \in DOMAIN sliders :
        \E v \in WidgetValues(Widgets(page, selected_country)[n]) :
            Rerun(page, selected_country, [sliders EXCEPT ![n] = v])

Next == OpenPage \/ SelectCountry \/ MoveSlider

Spec == Init /\ [][Next]_vars

(***************************************************************************)
(* The functions of the scripts, called on their own                       *)
(***************************************************************************)
\* the arguments enumerated: GridN equal steps over [0, 1]
GridN == 2

Grid == {(i * SCALE) \div GridN : i \in 0..GridN}

Pending(fn, variant, args) ==
    [fn |-> fn, variant |-> variant, args |-> args, done |-> FALSE, ret |-> 0,
     raised |-> "none"]

TwoStage == {"app", "gametree", "namegametree"}

TariffModels == {"app", "gametree", "namegametree", "main"}

TypeModels == {"bayesian", "simple"}

\* the profile table of a page with payoffs
Profiles(variant) ==
    CASE variant = "app"          -> app_countries
      [] variant = "gametree"     -> gametree_countries
      [] variant = "namegametree" -> namegametree_countries
      [] variant = "bayesian"     -> bayesian_countries
      [] variant = "simple"       -> simple_countries

UsPayoffCalls ==
    { Pending("us_payoff", v, [t_us |-> t_us, t_ch |-> t_ch, retaliated |-> r,
                               country |-> c, alpha |-> tree_widgets.alpha.default,
                               beta |-> b, gamma |-> tree_widgets.gamma.default]) :
        v \in TwoStage, t_us \in Grid, t_ch \in Grid, r \in {0, 1},
        c \in DOMAIN app_countries, b \in {0, tree_widgets.beta.default} }
    \cup
    \* bayesian.py and simple.py take no flag (0 here) and gamma is simple.py's
    { Pending("us_payoff", v, [t_us |-> t_us, t_ch |-> t_ch, retaliated |-> 0,
                               country |-> c, typ |-> typ,
                               gamma |-> simple_widgets.gamma.default]) :
        v \in TypeModels, t_us \in Grid \cup {penalty_threshold}, t_ch \in Grid,
        c \in DOMAIN app_countries, typ \in Range(types) }

ForeignPayoffCalls ==
    { Pending("foreign_payoff", v, [t_us |-> t_us, t_ch |-> t_ch, country |-> c,
                                    typ |-> typ, y |-> y]) :
        v \in TwoStage \cup TypeModels, t_us \in Grid, t_ch \in Grid,
        c \in DOMAIN app_countries, typ \in Range(types), y \in fr_actions }

ResponseCalls ==
    { Pending("response_probs", v, [G |-> G, N |-> N, D |-> D, F |-> F, T |-> T]) :
        v \in TariffModels \cup TypeModels, G \in Grid, N \in Grid \cup {3000},
        D \in Grid, F \in Grid \cup {9000}, T \in Grid \cup {SCALE \div 2} }

\* bayesian.py's expected payoffs under a type distribution, the one of any factors
ExpectedCalls ==
    { Pending("expected", "bayesian", [country |-> c, G |-> G, N |-> N, D |-> D, F |-> F]) :
        c \in DOMAIN bayesian_countries, G \in Grid, N \in Grid, D \in Grid, F \in Grid }

\* payoffs to choose among
Choices == {-SCALE, 0, SCALE}

\* probabilities to choose among: 0.25 and 0.5
ChoiceProbs == {Fin(25000, -1), Fin(50000, -1)}

BestCalls ==
    { Pending("best", "us_options", [values |-> <<a, b, c>>]) :
        a \in Choices, b \in Choices, c \in Choices }
    \cup { Pending("best", v, [values |-> <<a, b>>]) :
        v \in TypeModels, a \in Choices, b \in Choices }
    \cup { Pending("best", v, [values |-> <<a, b, c>>]) :
        v \in {"app_response", "tree_response"},
        a \in ChoiceProbs, b \in ChoiceProbs, c \in ChoiceProbs }

Return(value) == call' = [call EXCEPT !.done = TRUE, !.ret = value]

\* an uncaught exception ends the call without a value
Raise(exception) == call' = [call EXCEPT !.done = TRUE, !.raised = exception]

us_payoff_of(v, a) ==
    LET profile == Profiles(v)[a.country]
    IN  CASE v = "app" ->
               app_us_payoff(a.t_us, a.t_ch, a.retaliated, profile.GDP_us,
                             profile.TD_us, app_mu, profile.ID_us)
          [] v = "gametree" ->
               gametree_us_payoff(a.t_us, a.t_ch, a.retaliated, a.alpha, a.beta,
                                  a.gamma, profile.GDP_us, profile.TD_us)
          [] v = "namegametree" ->
               namegametree_us_payoff(a.t_us, a.t_ch, a.retaliated, a.alpha, a.beta,
                                      a.gamma, profile.GDP_us, profile.TD_us)
          [] v = "bayesian" ->
               bayesian_us_payoff(a.t_us, a.t_ch, profile.GDP_us, profile.TD_us,
                                  bayesian_mu, profile.ID_us, profile.Friendliness)
          [] v = "simple" ->
               us_payoff_simple(a.t_us, a.t_ch, profile.GDP, profile.Friendliness,
                                a.typ, a.gamma)

foreign_payoff_of(v, a) ==
    LET profile == Profiles(v)[a.country]
    IN  CASE v = "app" ->
               app_foreign_payoff(a.t_us, a.t_ch, profile.GDP, profile.Trade,
                                  app_nu, profile.ID)
          [] v = "gametree" ->
               gametree_foreign_payoff(a.t_us, a.t_ch, profile.GDP, profile.TD)
          [] v = "namegametree" ->
               namegametree_foreign_payoff(a.t_us, a.t_ch, profile.GDP, profile.Trade)
          [] v = "bayesian" ->
               bayesian_foreign_payoff(a.t_us, a.t_ch, profile.GDP, profile.Trade,
                                       bayesian_nu, profile.ID,
                                       type_alignment_bonus[a.typ][a.y])
          [] v = "simple" ->
               foreign_payoff_simple(a.t_us, a.t_ch, profile.GDP,
                                     profile.Friendliness, a.typ)

response_probs_of(v, a) ==
    CASE v = "app"          -> app_updated_response_probs(a.G, a.N, a.D, a.F, a.T)
      [] v = "gametree"     -> gametree_response_probs(a.G, a.N, a.D, a.F, a.T)
      [] v = "namegametree" -> namegametree_updated_response_probs(a.G, a.N, a.D, a.F, a.T)
      [] v = "main"         -> main_probs(main_scores(a.G, a.N, a.D, a.F, a.T))
      [] v = "bayesian"     -> response_type_probs(a.G, a.N, a.D, a.F)
      [] v = "simple"       -> simple_response_type_probs(a.G, a.N, a.D, a.F)

\* the enumeration order of the labels a selection chooses among
BestLabels(v) ==
    CASE v = "us_options"    -> x_options
      [] v = "bayesian"      -> bayesian_options
      [] v = "simple"        -> <<"low", "high">>
      [] v = "app_response"  -> app_labels
      [] v = "tree_response" -> tree_labels

best_of(v, a) ==
    CASE v = "us_options"    -> MaxOption(x_options, Zip(x_options, a.values))
      [] v = "bayesian"      -> MaxOption(bayesian_options, Zip(bayesian_options, a.values))
      [] v = "simple"        -> simple_best_action(a.values[2], a.values[1])
      [] v = "app_response"  -> MaxKey(app_labels, Zip(app_labels, a.values))
      [] v = "tree_response" -> MaxKey(tree_labels, Zip(tree_labels, a.values))

\* a key that is in no profile table
UnknownKey == "Atlantis"

\* the evaluations: a script run for a country key, known or not
EvaluateCalls ==
    { Pending("evaluate", v, [country |-> c, sliders |-> Defaults(v, FirstCountry)]) :
        v \in Pages, c \in DOMAIN app_countries \cup {UnknownKey} }

\* mutant: countries.get(key, first profile) in place of countries[key]
Lookup_default(table, key) ==
    [found |-> TRUE, key |-> IF key \in DOMAIN table THEN key ELSE FirstCountry]

\* countries[selected_country]: the entry of the key, or KeyError(key)
Lookup(table, key) == [found |-> key \in DOMAIN table, key |-> key]

\* the profile table a script looks the selected key up in
Table(pg) == IF pg = "main" THEN presets ELSE Profiles(pg)

\* a script run for a key: the lookup is its first statement after the selectbox,
\* and an uncaught KeyError ends the run there
Evaluate(pg, key, s) ==
    LET r == Lookup(Table(pg), key)
    IN  IF r.found
        THEN [error |-> "none", key |-> r.key, result |-> Run(pg, r.key, s)]
        ELSE [error |-> "KeyError", key |-> r.key, result |-> <<>>]

\* the keys of the per-type dicts of simple.py's payoff functions
simple_type_keys == {"high", "low", "none"}

\* the exception a policy-maker payoff call ends with, "none" if it returns:
\* simple.py subscripts its penalty dict with the type; the rest is +, -, *
us_payoff_raises(v, a) ==
    IF v = "simple" /\ a.typ \notin simple_type_keys THEN "KeyError" ELSE "none"

\* mutant: the sensitivity dict has no entry for the type none
foreign_payoff_raises_no_none(v, a) ==
    IF v = "simple" /\ a.typ \notin {"high", "low"} THEN "KeyError"
    ELSE IF v = "simple" /\ Profiles(v)[a.country].GDP + 1000 = 0
    THEN "ZeroDivisionError" ELSE "none"

\* the exception a partner payoff call ends with, "none" if it returns:
\* simple.py subscripts type_sensitivity and divides by GDP + 0.1
foreign_payoff_raises(v, a) ==
    IF v = "simple" /\ a.typ \notin simple_type_keys THEN "KeyError"
    ELSE IF v = "simple" /\ Profiles(v)[a.country].GDP + 1000 = 0
    THEN "ZeroDivisionError" ELSE "none"

CallUsPayoff ==
    /\ call.fn = "us_payoff" /\ ~call.done
    /\ IF us_payoff_raises(call.variant, call.args) = "none"
       THEN Return(us_payoff_of(call.variant, call.args))
       ELSE Raise(us_payoff_raises(call.variant, call.args))
    /\ UNCHANGED prog

CallForeignPayoff ==
    /\ call.fn = "foreign_payoff" /\ ~call.done
    /\ IF foreign_payoff_raises(call.variant, call.args) = "none"
       THEN Return(foreign_payoff_of(call.variant, call.args))
       ELSE Raise(foreign_payoff_raises(call.variant, call.args))
    /\ UNCHANGED prog

CallResponseProbs ==
    /\ call.fn = "response_probs" /\ ~call.done
    /\ Return(response_probs_of(call.variant, call.args))
    /\ UNCHANGED prog

CallBest ==
    /\ call.fn = "best" /\ ~call.done
    /\ Return(best_of(call.variant, call.args))
    /\ UNCHANGED prog

CallEvaluate ==
    /\ call.fn = "evaluate" /\ ~call.done
    /\ Return(Evaluate(call.variant, call.args.country, call.args.sliders))
    /\ UNCHANGED prog

\* U_high, U_low and the recommendation for a country under the type distribution
\* of the call's factors
expected_of(a) ==
    LET profile == bayesian_countries[a.country]
        p == Zip(types, response_type_probs(a.G, a.N, a.D, a.F))
    IN  bayesian_choice(p, bayesian_payoffs(profile, profile.Friendliness))

CallExpected ==
    /\ call.fn = "expected" /\ ~call.done
    /\ Return(expected_of(call.args))
    /\ UNCHANGED prog

InitFn ==
    /\ Shows("app", FirstCountry, Defaults("app", FirstCountry))
    /\ call \in UsPayoffCalls \cup ForeignPayoffCalls \cup ResponseCalls \cup BestCalls
                 \cup EvaluateCalls \cup ExpectedCalls

NextFn ==
    CallUsPayoff \/ CallForeignPayoff \/ CallResponseProbs \/ CallBest \/ CallEvaluate
      \/ CallExpected

SpecFn == InitFn /\ [][NextFn]_vars

(***************************************************************************)
(* What the claims speak of                                                *)
(***************************************************************************)
\* 0 < p < 1, p an ordinary number
IsProbability(p) == p.k = "fin" /\ FLess(FZero, p) /\ FLess(p, FOne)

RECURSIVE SumOver(_, _)
SumOver(d, keys) ==
    IF keys = {} THEN 0
    ELSE LET l == CHOOSE x \in keys : TRUE
         IN  ToFixed(d[l]) + SumOver(d, keys \ {l})

\* the three values add up to 1, up to the rounding of three quotients
SumsToOne(d) ==
    /\ \A l \in DOMAIN d : d[l].k = "fin"
    /\ Abs(SumOver(d, DOMAIN d) - SCALE) <= 3

ProperDistribution(d) == SumsToOne(d) /\ \A l \in DOMAIN d : IsProbability(d[l])

\* the label of the retaliate class on a page
RetaliateLabel(pg) == IF pg = "app" THEN "high_retaliate" ELSE "retaliate"

NegotiateLabel(pg) == IF pg = "app" THEN "low_retaliate" ELSE "negotiate"

OnChinaLowTariff ==
    /\ page \in {"app", "namegametree"}
    /\ selected_country = "China"
    /\ page = "app" => sliders.t2 = app_widgets.t2.default

\* the labels of the distribution(s) of a page, in the order of the scores
PageLabels(pg) ==
    CASE pg = "app"      -> app_labels
      [] pg = "main"     -> main_labels
      [] pg \in {"gametree", "namegametree"} -> tree_labels
      [] pg \in TypeModels -> types

\* the tariff factor T behind distribution f (p2: the low tariff, p3: the high)
TariffFactor(pg, s, f) ==
    CASE pg = "app"  -> IF f = "p2" THEN s.t2 ELSE s.t3
      [] pg = "main" -> main_normalize(s).T
      [] pg \in {"gametree", "namegametree"} ->
            IF f = "p2" THEN tree_levels.t2 ELSE tree_levels.t3
      [] pg \in TypeModels -> 0

\* the factors G, N, D, F, T behind distribution f of a page
PageFactors(pg, country, s, f) ==
    LET n == CASE pg = "main"     -> main_normalize(s)
               [] pg = "gametree" -> gametree_countries[country]
               [] OTHER           -> Normalize(Profiles(pg)[country])
    IN  [G |-> n.G, N |-> n.N, D |-> n.D, F |-> n.F, T |-> TariffFactor(pg, s, f)]

\* the three scores behind distribution f of a page
PageScores(pg, country, s, f) ==
    LET a == PageFactors(pg, country, s, f)
    IN  CASE pg = "app"          -> app_scores(a.G, a.N, a.D, a.F, a.T)
          [] pg = "main"         -> main_scores(a.G, a.N, a.D, a.F, a.T)
          [] pg = "gametree"     -> gametree_scores(a.G, a.N, a.D, a.F, a.T)
          [] pg = "namegametree" -> namegametree_scores(a.G, a.N, a.D, a.F, a.T)
          [] pg \in TypeModels   -> type_scores(a.G, a.N, a.D, a.F)

\* two probabilities equal up to the rounding of the last digit kept
Close(p, q) == p.k = "fin" /\ q.k = "fin" /\ Abs(ToFixed(p) - ToFixed(q)) <= 2

Larger(a, b) == IF a > b THEN a ELSE b

(***************************************************************************)
(* C1: every distribution a script returns sums to 1 and each of its three *)
(* probabilities is strictly between 0 and 1.                              *)
(* main.py exponentiates the raw scores: a GDP of 20000 typed into its     *)
(* number input makes exp(S_ret) infinite and the distribution             *)
(* (NaN, 0, 0).                                                            *)
(***************************************************************************)
C1_DistributionsProper == \A f \in DOMAIN probs : ProperDistribution(probs[f])

(***************************************************************************)
(* C2 as claimed: for the China profile at the low tariff 0.3 the          *)
(* retaliate class has the largest probability and is the reported         *)
(* most-likely response to x2.                                             *)
(***************************************************************************)
C2_RetaliateMostLikely ==
    OnChinaLowTariff =>
        /\ best.china_x2_best = RetaliateLabel(page)
        /\ FLess(probs.p2["no_response"], probs.p2[RetaliateLabel(page)])
        /\ FLess(probs.p2[NegotiateLabel(page)], probs.p2[RetaliateLabel(page)])

(***************************************************************************)
(* C2 amended: for the China profile at the low tariff 0.3 the no-response *)
(* class has the largest probability (S_none = 1.84 > S_ret = 1.62 >       *)
(* S_neg = 1.31), retaliate the second largest, and the reported           *)
(* most-likely response to x2 is no_response.                              *)
(***************************************************************************)
C2_NoResponseMostLikely ==
    OnChinaLowTariff =>
        /\ best.china_x2_best = "no_response"
        /\ FLess(probs.p2[RetaliateLabel(page)], probs.p2["no_response"])
        /\ FLess(probs.p2[NegotiateLabel(page)], probs.p2[RetaliateLabel(page)])

C2_Witness ==
    /\ OnChinaLowTariff
    /\ page = "namegametree"
    /\ ProperDistribution(probs.p2)

(***************************************************************************)
(* C5: in the two-stage scripts U_x1 = T1,                                 *)
(* U_x2 = p2[no_response]*T5 + p2[negotiate/low]*max(T6a,T6b)              *)
(*        + p2[retaliate/high]*max(T7a,T7b),                               *)
(* U_x3 = p3[no_response]*T2 + p3[negotiate/low]*T3 + p3[retaliate/high]*T4*)
(* with p2 and p3 the distributions at the low and at the high tariff.     *)
(***************************************************************************)
C5_ExpectedPayoffs ==
    page \in TwoStage =>
        LET T  == payoffs
            p2 == probs.p2
            p3 == probs.p3
            r  == RetaliateLabel(page)
            n  == NegotiateLabel(page)
        IN  /\ expected.x1 = T.T1
            /\ expected.x2 = Weighted(p2["no_response"], T.T5)
                               + Weighted(p2[n], Larger(T.T6a, T.T6b))
                               + Weighted(p2[r], Larger(T.T7a, T.T7b))
            /\ expected.x3 = Weighted(p3["no_response"], T.T2)
                               + Weighted(p3[n], T.T3)
                               + Weighted(p3[r], T.T4)
            /\ \A f \in {"p2", "p3"} :
                 probs[f] = Zip(PageLabels(page),
                                softmax(PageScores(page, selected_country, sliders, f)))

\* a run where the best second move differs between the two nodes under x2
C5_Witness ==
    /\ page = "gametree"
    /\ payoffs.T6b > payoffs.T6a
    /\ payoffs.T7a > payoffs.T7b
    /\ expected.x2 # expected.x1

(***************************************************************************)
(* C7: every response-probability computation, main.py's included,         *)
(* subtracts the maximum score before exponentiating: what each page shows *)
(* is the stable softmax of its scores.                                    *)
(* main.py exponentiates the raw scores, and for a GDP of 20000 it shows   *)
(* (NaN, 0, 0) where the stable softmax gives (1, 0, 0).                   *)
(***************************************************************************)
C7_StableSoftmaxEverywhere ==
    \A f \in DOMAIN probs :
        LET stable == Zip(PageLabels(page),
                          softmax(PageScores(page, selected_country, sliders, f)))
        IN  \A l \in DOMAIN stable : Close(probs[f][l], stable[l])

(***************************************************************************)
(* C8: with G, N, D, F fixed a strict increase of T strictly increases     *)
(* S_ret - S_none, does not decrease S_ret - S_neg, and strictly increases *)
(* P(retaliate): in the two-stage scripts P(retaliate) under x3 exceeds    *)
(* that under x2 whenever t3 > t2, and in main.py moving the tariff slider *)
(* up raises P(retaliate).                                                 *)
(* In main.py with a GDP of 20000 P(retaliate) is NaN at every tariff      *)
(* (the overflow of C7).                                                   *)
(***************************************************************************)
C8_TwoStage ==
    (page \in TwoStage /\ TariffFactor(page, sliders, "p3") > TariffFactor(page, sliders, "p2"))
        => FLess(probs.p2[RetaliateLabel(page)], probs.p3[RetaliateLabel(page)])

C8_MainStep ==
    (/\ page = "main" /\ page' = "main"
     /\ sliders' = [sliders EXCEPT !.tariff = sliders'.tariff]
     /\ sliders'.tariff > sliders.tariff)
        => LET S0 == PageScores("main", selected_country, sliders, "p")
               S1 == PageScores("main", selected_country', sliders', "p")
           IN  /\ S1[1] - S1[3] > S0[1] - S0[3]
               /\ S1[1] - S1[2] >= S0[1] - S0[2]
               /\ FLess(probs.p["Retaliate"], probs'.p["Retaliate"])

C8_TariffMonotone == [][C8_TwoStage' /\ C8_MainStep]_vars

(***************************************************************************)
(* C10: the no-tariff first move x1 has no damage term and no retaliation  *)
(* penalty: T1 = 0 in app.py, T1 = gamma in gametree.py and                *)
(* namegametree.py, and U_x1 = T1.                                         *)
(***************************************************************************)
C10_NoTariffBaseline ==
    /\ page = "app" => payoffs.T1 = 0 /\ expected.x1 = payoffs.T1
    /\ page \in {"gametree", "namegametree"} =>
           payoffs.T1 = sliders.gamma /\ expected.x1 = payoffs.T1

C10_Witness ==
    /\ page = "gametree"
    /\ selected_country = "EU"
    /\ sliders.gamma < 0
    /\ sliders.beta > 0
    /\ payoffs.T1 = sliders.gamma

(***************************************************************************)
(* C3: a retaliation tariff of exactly 0 leaves no retaliation-linked term *)
(* in the policy-maker payoff whatever the retaliated flag:                *)
(* us_payoff(t_us, 0, retaliated=1, ...) = us_payoff(t_us, 0,              *)
(* retaliated=0, ...) in app.py, gametree.py and namegametree.py.          *)
(* gametree.py and namegametree.py subtract beta * retaliated whatever     *)
(* t_ch is.                                                                *)
(***************************************************************************)
C3_ZeroRetaliationIgnoresFlag ==
    (/\ call.fn = "us_payoff" /\ call.done
     /\ call.args.t_ch = 0 /\ call.args.retaliated = 1)
        => call.ret = us_payoff_of(call.variant, [call.args EXCEPT !.retaliated = 0])

(***************************************************************************)
(* C4: the partner payoff at a retaliation tariff of 0 is the pure damage  *)
(* baseline, with no retaliation gain and no retaliation cost.             *)
(* As stated: the baseline is -GDP * t_us * TD times the variant's         *)
(* elasticity (gametree.py) or type sensitivity (simple.py), read up to    *)
(* the rounding to two decimals of bayesian.py and simple.py.              *)
(***************************************************************************)
C4_BaselineWithTradeDependence ==
    (call.fn = "foreign_payoff" /\ call.done /\ call.args.t_ch = 0)
        => LET v == call.variant
               a == call.args
               profile == Profiles(v)[a.country]
               TD == IF v = "gametree" THEN profile.TD ELSE profile.Trade
               damage == Mul(profile.GDP, Mul(a.t_us, TD))
               sens == [high |-> 10000, low |-> 6000, none |-> 3000]
           IN  call.ret = CASE v = "gametree" ->
                                 -Mul(profile.GDP,
                                      Mul(Mul(a.t_us, TD), gametree_elasticity))
                            [] v = "simple"   -> Round2(-Mul(damage, sens[a.typ]))
                            [] v = "bayesian" -> Round2(-damage)
                            [] OTHER          -> -damage

(***************************************************************************)
(* C4, as the code has it: the baseline at a retaliation tariff of 0 is    *)
(* -GDP * t_us * TD in app.py and namegametree.py, that times the import   *)
(* elasticity in gametree.py, round(-GDP * t_us * TD, 2) in bayesian.py    *)
(* and round(-t_us * GDP * sens, 2), without trade dependence, in          *)
(* simple.py; whatever the type or the partner's action label, nothing     *)
(* retaliation-linked is added or subtracted.                              *)
(***************************************************************************)
C4_ZeroRetaliationBaseline ==
    (call.fn = "foreign_payoff" /\ call.done /\ call.args.t_ch = 0)
        => LET v == call.variant
               a == call.args
               profile == Profiles(v)[a.country]
               sens == [high |-> 10000, low |-> 6000, none |-> 3000]
           IN  call.ret =
                 CASE v \in {"app", "namegametree"} ->
                        -Mul(profile.GDP, Mul(a.t_us, profile.Trade))
                   [] v = "gametree" ->
                        -Mul(profile.GDP, Mul(Mul(a.t_us, profile.TD), gametree_elasticity))
                   [] v = "bayesian" ->
                        Round2(-Mul(Mul(profile.GDP, a.t_us), profile.Trade))
                   [] v = "simple" ->
                        Round2(-Mul(Mul(a.t_us, profile.GDP), sens[a.typ]))

\* simple.py's partner payoff called with a tariff and no retaliation
C4_Witness ==
    /\ call.fn = "foreign_payoff" /\ call.done
    /\ call.variant = "simple"
    /\ call.args.t_ch = 0 /\ call.args.t_us > 0
    /\ call.args.typ = "low"
    /\ call.ret < 0

(***************************************************************************)
(* C6: best-action selection returns a label of maximal value, and among   *)
(* equal maxima the first in the enumeration order of the variant.         *)
(***************************************************************************)
C6_FirstMaximal ==
    (call.fn = "best" /\ call.done)
        => LET keys == BestLabels(call.variant)
               val  == call.args.values
               i    == IndexOf(keys, call.ret)
               Less(x, y) == IF call.variant \in {"app_response", "tree_response"}
                             THEN FLess(x, y) ELSE x < y
           IN  /\ call.ret \in Range(keys)
               /\ \A j \in DOMAIN keys : ~Less(val[i], val[j])
               /\ \A j \in DOMAIN keys : j < i => Less(val[j], val[i])

\* x2 and x3 tie above x1, and x2 is returned
C6_Witness ==
    /\ call.fn = "best" /\ call.done
    /\ call.variant = "us_options"
    /\ call.args.values = <<0, SCALE, SCALE>>
    /\ call.ret = "x2"

(***************************************************************************)
(* C9: with F = 0.9 and N = 0.3, for any G and D in [0, 1] and any tariff  *)
(* factor T in [0, 0.5], P(retaliate) is strictly smaller than P(negotiate)*)
(* or P(no response), and retaliate is not the most likely response.       *)
(***************************************************************************)
C9_FriendlyNeverRetaliates ==
    (/\ call.fn = "response_probs" /\ call.done
     /\ call.variant \in TariffModels
     /\ call.args.F = 9000 /\ call.args.N = 3000
     /\ call.args.T <= 5000)
        => LET p == call.ret
               keys == PageLabels(call.variant)
           IN  /\ FLess(p[1], p[2]) \/ FLess(p[1], p[3])
               /\ argmax(p) # 1
               /\ MaxKey(keys, Zip(keys, p)) # keys[1]

\* the inputs most favourable to retaliation: G = 1, D = 0, T = 0.5
C9_Witness ==
    /\ call.fn = "response_probs" /\ call.done
    /\ call.variant = "main"
    /\ call.args = [G |-> SCALE, N |-> 3000, D |-> 0, F |-> 9000, T |-> 5000]
    /\ FLess(call.ret[1], call.ret[2])

\* the tariff action behind an option of bayesian.py
ActionOf(option) == IF option = "High Tariff" THEN "high" ELSE "low"

\* p[typ] * US(typ, a, y) * 0.5, the share of one leaf in U_a
HalfShare(typ, a, y) == W(5, Weighted(probs.p[typ], payoffs[<<typ, a, y>>][1]))

\* p[typ] * max(US(typ, a, retaliate), US(typ, a, no_retaliate))
BestShare(typ, a) ==
    Weighted(probs.p[typ], Larger(payoffs[<<typ, a, "retaliate">>][1],
                                  payoffs[<<typ, a, "no_retaliate">>][1]))

(***************************************************************************)
(* C11: in bayesian.py the expected payoff of each tariff action a is      *)
(* the sum over the types of p[typ] * (0.5 * US(typ, a, retaliate)         *)
(* + 0.5 * US(typ, a, no_retaliate)): a fixed 0.5/0.5 split inside each    *)
(* type, which lies below the max-based value wherever the two leaves of   *)
(* a type differ.                                                          *)
(***************************************************************************)
C11_FixedHalfSplit ==
    page = "bayesian" =>
        \A o \in DOMAIN expected :
            LET a == ActionOf(o)
            IN  /\ expected[o] =
                     HalfShare("high", a, "retaliate") + HalfShare("high", a, "no_retaliate")
                       + HalfShare("low", a, "retaliate") + HalfShare("low", a, "no_retaliate")
                       + HalfShare("none", a, "retaliate") + HalfShare("none", a, "no_retaliate")
                /\ (\A typ \in Range(types) :
                       payoffs[<<typ, a, "retaliate">>][1]
                         # payoffs[<<typ, a, "no_retaliate">>][1])
                     => expected[o] < BestShare("high", a) + BestShare("low", a)
                                        + BestShare("none", a)

\* bayesian.py has run for a country whose two leaves differ at the high tariff
C11_Witness ==
    /\ page = "bayesian"
    /\ selected_country = "Mexico"
    /\ \A typ \in Range(types) :
          payoffs[<<typ, "high", "retaliate">>][1]
            < payoffs[<<typ, "high", "no_retaliate">>][1]
    /\ DOMAIN expected = Range(bayesian_options)

(***************************************************************************)
(* C12: an evaluation whose country key is not a known profile name fails  *)
(* at the profile lookup with an error that carries the unknown key; no    *)
(* default profile is substituted, and no distribution, payoff or          *)
(* recommended action is produced.                                         *)
(***************************************************************************)
C12_UnknownKeyFails ==
    (call.fn = "evaluate" /\ call.done)
        => IF call.args.country \in DOMAIN Table(call.variant)
           THEN /\ call.ret.error = "none"
                /\ call.ret.result = Run(call.variant, call.args.country, call.args.sliders)
           ELSE /\ call.ret.error = "KeyError"
                /\ call.ret.key = call.args.country
                /\ call.ret.result = <<>>

\* simple.py evaluated for a key that is in none of its profiles
C12_Witness ==
    /\ call.fn = "evaluate" /\ call.done
    /\ call.variant = "simple"
    /\ call.args.country = UnknownKey
    /\ call.ret.error = "KeyError"

C14_PayoffsTotal ==
    (call.fn \in {"us_payoff", "foreign_payoff"} /\ call.done)
        => /\ call.raised = "none"
           /\ call.ret \in Int
           /\ (call.variant = "simple" /\ call.fn = "foreign_payoff")
                 => Profiles("simple")[call.args.country].GDP + 1000 > 0

\* simple.py's partner payoff for the type none, with both tariffs at 1: negative
C14_Witness ==
    /\ call.fn = "foreign_payoff" /\ call.done
    /\ call.variant = "simple"
    /\ call.args.typ = "none"
    /\ call.args.t_us = SCALE /\ call.args.t_ch = SCALE
    /\ call.raised = "none"
    /\ call.ret < 0

\* the three scores of a page from given factors
ScoresOf(pg, G, N, D, F, T) ==
    CASE pg = "app"          -> app_scores(G, N, D, F, T)
      [] pg = "main"         -> main_scores(G, N, D, F, T)
      [] pg = "gametree"     -> gametree_scores(G, N, D, F, T)
      [] pg = "namegametree" -> namegametree_scores(G, N, D, F, T)
      [] pg \in TypeModels   -> type_scores(G, N, D, F)

\* t * 100 / TARIFF_MAX for the tariff behind distribution f of a two-stage page
TariffNorm(pg, f) ==
    IF pg = "app"
    THEN ((IF f = "p2" THEN sliders.t2 ELSE sliders.t3) * 100) \div app_TARIFF_MAX
    ELSE ((IF f = "p2" THEN tree_levels.t2 ELSE tree_levels.t3) * 100)
             \div namegametree_TARIFF_MAX

C16_DamageOnlyIfFlagged ==
    (/\ call.fn = "us_payoff" /\ call.done
     /\ call.variant \in TwoStage
     /\ call.args.retaliated = 0)
        => LET a == call.args
               profile == Profiles(call.variant)[a.country]
           IN  /\ call.ret = us_payoff_of(call.variant, [a EXCEPT !.t_ch = 0])
               /\ call.ret = IF call.variant = "app"
                             THEN Mul(Mul(app_mu, a.t_us), profile.ID_us)
                             ELSE Mul(a.alpha, a.t_us) + a.gamma

\* app.py's payoff with a retaliation tariff of 1 and the flag off
C16_Witness ==
    /\ call.fn = "us_payoff" /\ call.done
    /\ call.variant = "app"
    /\ call.args.retaliated = 0
    /\ call.args.t_ch = SCALE /\ call.args.t_us = SCALE
    /\ call.ret > 0

\* the partner's own best response at (typ, a) in the payoffs table shown:
\* retaliate iff its payoff there is strictly greater
BestResponse(typ, a) ==
    IF payoffs[<<typ, a, "retaliate">>][2] > payoffs[<<typ, a, "no_retaliate">>][2]
    THEN "retaliate" ELSE "no_retaliate"

\* p[typ] times the policy-maker payoff at the leaf (typ, a, r)
LeafShare(typ, a, r) == Weighted(probs.p[typ], payoffs[<<typ, a, r>>][1])

(***************************************************************************)
(* C17: in simple.py the expected payoff of an action a in {low, high} is  *)
(* the sum over the types t of p[t] times the policy-maker payoff at the   *)
(* leaf (t, a, r), r the partner's own best response: retaliate iff the    *)
(* partner's payoff at (t, a, retaliate) is strictly greater than at       *)
(* (t, a, no_retaliate); with a retaliation rate of 0 the partner never    *)
(* retaliates; the recommended action is high iff exp_us_high is strictly  *)
(* greater than exp_us_low.                                                *)
(***************************************************************************)
C17_BestResponseExpectation ==
    page = "simple" =>
        /\ \A a \in {"low", "high"} :
             expected[a] = LeafShare("high", a, BestResponse("high", a))
                             + LeafShare("low", a, BestResponse("low", a))
                             + LeafShare("none", a, BestResponse("none", a))
        /\ sliders.t_ret = 0 =>
             \A typ \in Range(types), a \in {"low", "high"} :
                 BestResponse(typ, a) = "no_retaliate"
        /\ best.best_action = IF expected.high > expected.low THEN "high" ELSE "low"

\* a run where the partner's best response differs between leaves of one action
\* and retaliation changes the policy-maker's payoff
C17_Witness ==
    /\ page = "simple"
    /\ sliders.t_ret > 0
    /\ \E t1 \in Range(types), t2 \in Range(types), a \in {"low", "high"} :
          /\ BestResponse(t1, a) = "retaliate"
          /\ BestResponse(t2, a) = "no_retaliate"
          /\ payoffs[<<t2, a, "retaliate">>][1] # payoffs[<<t2, a, "no_retaliate">>][1]

\* bayesian.py's policy-maker payoff before the friendliness penalty and the rounding
PenaltyFree(t_us, t_ch, profile) ==
    Mul(Mul(bayesian_mu, t_us), profile.ID_us)
      - Mul(Mul(W(15, profile.GDP_us), t_ch), profile.TD_us)

FriendlinessPenalty(profile) == -Mul(profile.Friendliness, penalty_scale)

(***************************************************************************)
(* C18: in bayesian.py the friendliness penalty -friendliness *            *)
(* penalty_scale is part of the policy-maker payoff iff the policy-maker's *)
(* own tariff is strictly greater than 0.2 (none at exactly 0.2); with the *)
(* levels t2 = 0.1 and t3 = 0.4 it is present at every high-tariff leaf    *)
(* and at no low-tariff leaf, for every type and both partner responses.   *)
(***************************************************************************)
C18_PenaltyAboveThreshold ==
    /\ (call.fn = "us_payoff" /\ call.done /\ call.variant = "bayesian")
         => LET a == call.args
                profile == bayesian_countries[a.country]
            IN  call.ret = Round2(PenaltyFree(a.t_us, a.t_ch, profile)
                                    + IF a.t_us > 2000
                                      THEN FriendlinessPenalty(profile) ELSE 0)
    /\ (call.fn = "evaluate" /\ call.done /\ call.variant = "bayesian"
          /\ call.ret.error = "none")
         => LET profile == bayesian_countries[call.args.country]
                pay == call.ret.result.payoffs
            IN  \A typ \in Range(types) :
                    /\ pay[<<typ, "high", "retaliate">>][1]
                         = Round2(PenaltyFree(4000, 2000, profile)
                                    + FriendlinessPenalty(profile))
                    /\ pay[<<typ, "high", "no_retaliate">>][1]
                         = Round2(PenaltyFree(4000, 0, profile)
                                    + FriendlinessPenalty(profile))
                    /\ pay[<<typ, "low", "retaliate">>][1]
                         = Round2(PenaltyFree(1000, 2000, profile))
                    /\ pay[<<typ, "low", "no_retaliate">>][1]
                         = Round2(PenaltyFree(1000, 0, profile))

\* the payoff called with a tariff of exactly 0.2 for a partner whose penalty is not 0
C18_Witness ==
    /\ call.fn = "us_payoff" /\ call.done
    /\ call.variant = "bayesian"
    /\ call.args.t_us = 2000
    /\ Round2(FriendlinessPenalty(bayesian_countries[call.args.country])) < 0
    /\ call.ret = Round2(PenaltyFree(2000, call.args.t_ch,
                                     bayesian_countries[call.args.country]))

\* the leaves (a: z1, b: z2) of a second-stage node that are a best reply of the
\* policy-maker, given its payoffs at the two leaves
BestReplies(Ta, Tb) ==
    {l \in {"a", "b"} : IF l = "a" THEN Ta >= Tb ELSE Tb >= Ta}

(***************************************************************************)
(* C19: leaf consistency in gametree.py and namegametree.py: at each       *)
(* second-stage node under x2 the partner payoff that enters C_x2 is the   *)
(* one of the leaf (z1 or z2) whose policy-maker payoff enters U_x2, the   *)
(* policy-maker's best second-stage reply.                                 *)
(* The scripts take max(C6a, C6b) and max(C7a, C7b), the partner's own     *)
(* best leaf, whichever leaf max(T6a, T6b) and max(T7a, T7b) chose.        *)
(***************************************************************************)
C19_LeafConsistency ==
    page \in {"gametree", "namegametree"} =>
        LET T == payoffs
            p2 == probs.p2
        IN  /\ expected.x2 = Weighted(p2["no_response"], T.T5)
                               + Weighted(p2["negotiate"], Larger(T.T6a, T.T6b))
                               + Weighted(p2["retaliate"], Larger(T.T7a, T.T7b))
            /\ \E n \in BestReplies(T.T6a, T.T6b), r \in BestReplies(T.T7a, T.T7b) :
                 expected.C_x2 =
                     Weighted(p2["no_response"], T.C5)
                       + Weighted(p2["negotiate"], IF n = "a" THEN T.C6a ELSE T.C6b)
                       + Weighted(p2["retaliate"], IF r = "a" THEN T.C7a ELSE T.C7b)

\* the policy-maker's payoff at the leaf (x, y) of a payoffs table, read at type high
TypeFree(pay, x, y) == pay[<<"high", x, y>>][1]

\* 0.5 * (US(x, retaliate) + US(x, no_retaliate))
HalfSum(pay, x) ==
    W(5, TypeFree(pay, x, "retaliate")) + W(5, TypeFree(pay, x, "no_retaliate"))

\* the rounding of three probabilities, of six products and of one halving
ExpectationTolerance == 3 + 6 + 1

(***************************************************************************)
(* C20: in bayesian.py the policy-maker's payoff at a leaf does not depend *)
(* on the latent type, so for every type distribution p that sums to 1     *)
(* U_high = 0.5 * (US(high, retaliate) + US(high, no_retaliate)) and       *)
(* U_low = 0.5 * (US(low, retaliate) + US(low, no_retaliate)): the         *)
(* expected payoffs and the recommended action are the same under any two  *)
(* type distributions.                                                     *)
(***************************************************************************)
C20_TypeDrawIrrelevant ==
    (call.fn = "expected" /\ call.done)
        => LET profile == bayesian_countries[call.args.country]
               pay == bayesian_payoffs(profile, profile.Friendliness)
               U == call.ret.expected
           IN  /\ \A typ \in Range(types), x \in {"high", "low"}, y \in fr_actions :
                     pay[<<typ, x, y>>][1] = TypeFree(pay, x, y)
               /\ Abs(U["High Tariff"] - HalfSum(pay, "high")) <= ExpectationTolerance
               /\ Abs(U["Low Tariff"] - HalfSum(pay, "low")) <= ExpectationTolerance
               /\ call.ret.best.us_best =
                     IF HalfSum(pay, "low") > HalfSum(pay, "high")
                     THEN "Low Tariff" ELSE "High Tariff"

\* a distribution far from the profile's own: all factors 0 for the EU
C20_Witness ==
    /\ call.fn = "expected" /\ call.done
    /\ call.args = [country |-> "EU", G |-> 0, N |-> 0, D |-> 0, F |-> 0]
    /\ call.ret.best.us_best \in Range(bayesian_options)
    /\ call.ret.expected["High Tariff"] # call.ret.expected["Low Tariff"]

====
